---- MODULE Spec2Model ----
\* Multi-tenant identity boundary: registration, login, refresh, context
\* resolution and the guards in front of the organisation and profile
\* endpoints, over a single shared store (core_users, organizations,
\* tenant_users).
EXTENDS Integers, Sequences, FiniteSets, TLC

\* ---------------------------------------------------------------- bounds
MaxCoreUsers == 1
MaxOrgs == 2
MaxTenantUsers == 1
MaxTokens == 3
MaxInFlight == 2
MaxAge == 2

\* ------------------------------------------------------- input alphabets
RegisterEmails == {"a@x.io"}
Emails == RegisterEmails \cup {"nobody@x.io"}
GoodPassword == "Passw0rd1"
WrongPassword == "Wr0ngPass1"
LoginPasswords == {GoodPassword, WrongPassword}
Slugs == {"acme", "other"}
Absent == "<absent>"
Headers == Slugs \cup {Absent, ""}
NoName == "<null>"
UpdateNames == {"Ann"}

\* ------------------------------------------------------ program constants
SECRET_KEY == "secret"
ACCESS_TOKEN_EXPIRE == 1
REFRESH_TOKEN_EXPIRE == 2

VARIABLES core_users, organizations, tenant_users,
          core_seq, org_seq, tenant_seq,
          held, expired, resp, inflight

vars == <<core_users, organizations, tenant_users, core_seq, org_seq,
          tenant_seq, held, expired, resp, inflight>>
db == <<core_users, organizations, tenant_users, core_seq, org_seq, tenant_seq>>

\* ------------------------------------------------------- python helpers
\* Python truthiness of an Optional[str] / Optional[int] value.
Truthy(x) == x \notin {Absent, ""}
TruthyInt(n) == n # 0

Digits == <<"0", "1", "2", "3", "4", "5", "6", "7", "8", "9">>
RECURSIVE str(_)
str(n) == IF n < 10 THEN Digits[n + 1] ELSE str(n \div 10) \o Digits[(n % 10) + 1]

\* int(s): the number whose decimal form is s; ValueError otherwise.
Ids == 0..(MaxCoreUsers + MaxTenantUsers)
int(s) == IF \E n \in Ids : str(n) = s
          THEN [ok |-> TRUE, value |-> CHOOSE n \in Ids : str(n) = s]
          ELSE [ok |-> FALSE, value |-> 0]

\* .first() of a query result
NoRow == [none |-> TRUE]
first(rows) == IF rows = {} THEN NoRow ELSE CHOOSE r \in rows : TRUE

\* ------------------------------------------------------------- passwords
hash_password(password) == [alg |-> "bcrypt", of |-> password]
verify_password(password, hashed_password) == hashed_password.of = password

\* ---------------------------------------------------------------- queries
get_core_user_by_id(user_id) == first({u \in core_users : u.id = user_id})
get_core_user_by_email(email) == first({u \in core_users : u.email = email})
\* mutant: is_active is not part of the filter
get_organization_by_slug_any(slug) == first({o \in organizations : o.slug = slug})

get_organization_by_slug(slug) ==
    first({o \in organizations : o.slug = slug /\ o.is_active})
get_tenant_user_by_id(user_id) == first({u \in tenant_users : u.id = user_id})
get_tenant_user_by_email(email) == first({u \in tenant_users : u.email = email})

\* ------------------------------------------------------------ token codec
NoClaim == [sub |-> "", context |-> "", tenant |-> "", org_id |-> 0, email |-> ""]
\* The payload segment of a token is the JSON text of the data dict: a key the
\* dict lacks is not written, a str is written as a JSON string and an int in
\* decimal digits; reading it back parses the digits.
json_string(s) == [t |-> "string", v |-> s]
json_number(n) == [t |-> "number", v |-> str(n)]
json_dumps(data) ==
    LET written == {k \in {"sub", "context", "tenant", "email"} : data[k] # ""}
                       \cup (IF data.org_id # 0 THEN {"org_id"} ELSE {})
    IN  [k \in written |->
            IF k = "org_id" THEN json_number(data[k]) ELSE json_string(data[k])]
Numbers == 0..(MaxCoreUsers + MaxTenantUsers + MaxOrgs)
json_str(payload, k) ==
    IF k \in DOMAIN payload /\ payload[k].t = "string" THEN payload[k].v ELSE ""
json_int(payload, k) ==
    IF k \in DOMAIN payload /\ payload[k].t = "number"
          /\ \E n \in Numbers : str(n) = payload[k].v
    THEN CHOOSE n \in Numbers : str(n) = payload[k].v
    ELSE 0
json_loads(payload) ==
    [sub |-> json_str(payload, "sub"), context |-> json_str(payload, "context"),
     tenant |-> json_str(payload, "tenant"), org_id |-> json_int(payload, "org_id"),
     email |-> json_str(payload, "email")]

\* Time is kept relative to the clock: a token carries exp - now, the ticks
\* left until its exp claim is reached; tick moves every token one tick closer.
\* A token is kept by what its payload segment reads back as.
Token(claims, ttl) ==
    [claims |-> json_loads(json_dumps(claims)), exp_in |-> ttl, sig |-> SECRET_KEY]
create_access_token(data) == Token(data, ACCESS_TOKEN_EXPIRE)
create_refresh_token(data) == Token(data, REFRESH_TOKEN_EXPIRE)

NoCredentials == [claims |-> NoClaim, exp_in |-> 0, sig |-> "<no header>"]
ForgedToken ==
    [claims |-> [NoClaim EXCEPT !.sub = "1", !.context = "core"],
     exp_in |-> REFRESH_TOKEN_EXPIRE, sig |-> "forged"]
\* jwt.decode raises on an expired token before any claim of it is read, so the
\* tokens that have expired are kept as one: held has the live tokens only.
ExpiredToken == [claims |-> NoClaim, exp_in |-> 0, sig |-> SECRET_KEY]
Presentable == held \cup {ForgedToken} \cup (IF expired THEN {ExpiredToken} ELSE {})
Credentials == Presentable \cup {NoCredentials}

\* mutant: the exp claim is not verified
jwt_decode_without_exp(token) ==
    IF token.sig # SECRET_KEY THEN "InvalidTokenError" ELSE "ok"

\* jwt.decode(token, SECRET_KEY, algorithms=[ALGORITHM]): the signature is
\* verified before the expiry claim.
jwt_decode(token) ==
    IF token.sig # SECRET_KEY THEN "InvalidTokenError"
    ELSE IF token.exp_in <= 0 THEN "ExpiredSignatureError"
    ELSE "ok"

\* decode_token: the codec's wrapper, raising ValueError with the two messages.
decode_token(token) ==
    CASE jwt_decode(token) = "ok" ->
            [exc |-> "none", msg |-> "", value |-> token.claims]
      [] jwt_decode(token) = "ExpiredSignatureError" ->
            [exc |-> "ValueError", msg |-> "Token has expired", value |-> NoClaim]
      [] OTHER -> [exc |-> "ValueError", msg |-> "Invalid token", value |-> NoClaim]

\* --------------------------------------------------------------- security
Deny(status, detail) ==
    [ok |-> FALSE, status |-> status, detail |-> detail,
     user_id |-> 0, context |-> "", tenant_slug |-> ""]
Principal(user_id, context, tenant_slug) ==
    [ok |-> TRUE, status |-> 200, detail |-> "",
     user_id |-> user_id, context |-> context, tenant_slug |-> tenant_slug]

\* mutant: the is_active flag of the core user is not read
core_context_ignoring_is_active(user_id, context) ==
    IF get_core_user_by_id(user_id) = NoRow
    THEN Deny(401, "User not found or inactive")
    ELSE Principal(user_id, context, "")

core_context(user_id, context) ==
    LET user == get_core_user_by_id(user_id) IN
    IF user = NoRow \/ ~user.is_active
    THEN Deny(401, "User not found or inactive")
    ELSE Principal(user_id, context, "")

\* mutant: the organization found by slug is not compared with org_id
tenant_context_trusting_slug(user_id, context, payload) ==
    IF ~Truthy(payload.tenant) \/ ~TruthyInt(payload.org_id)
    THEN Deny(401, "Invalid tenant token payload")
    ELSE IF get_organization_by_slug(payload.tenant) = NoRow
    THEN Deny(401, "Invalid tenant in token")
    ELSE Principal(user_id, context, payload.tenant)

tenant_context_of(user_id, context, payload) ==
    LET tenant_slug == payload.tenant
        org_id == payload.org_id
        organization == get_organization_by_slug(tenant_slug)
    IN  IF ~Truthy(tenant_slug) \/ ~TruthyInt(org_id)
        THEN Deny(401, "Invalid tenant token payload")
        ELSE IF organization = NoRow \/ organization.id # org_id
        THEN Deny(401, "Invalid tenant in token")
        ELSE Principal(user_id, context, tenant_slug)

get_current_user_context(credentials) ==
    IF credentials = NoCredentials THEN Deny(401, "Not authenticated")
    ELSE IF jwt_decode(credentials) = "ExpiredSignatureError"
    THEN Deny(401, "Token has expired")
    ELSE IF jwt_decode(credentials) = "InvalidTokenError"
    THEN Deny(401, "Invalid token")
    ELSE LET payload == credentials.claims
             user_id_str == payload.sub
             context == payload.context
         IN  IF ~Truthy(user_id_str) \/ ~Truthy(context)
             THEN Deny(401, "Invalid token payload")
             ELSE IF ~int(user_id_str).ok
             THEN Deny(401, "Invalid user ID in token")
             ELSE IF context = "core"
             THEN core_context(int(user_id_str).value, context)
             ELSE IF context = "tenant"
             THEN tenant_context_of(int(user_id_str).value, context, payload)
             ELSE Deny(401, "Invalid context in token")

\* mutant: any resolved context passes the core gate
get_current_core_user_id_any_context(credentials) ==
    get_current_user_context(credentials)

get_current_core_user_id(credentials) ==
    LET context_data == get_current_user_context(credentials) IN
    IF ~context_data.ok THEN context_data
    ELSE IF context_data.context # "core"
    THEN Deny(403, "Access denied. Core user required")
    ELSE context_data

get_current_tenant_user_id(credentials) ==
    LET context_data == get_current_user_context(credentials) IN
    IF ~context_data.ok THEN context_data
    ELSE IF context_data.context # "tenant"
    THEN Deny(403, "Access denied. Tenant user required")
    ELSE IF ~Truthy(context_data.tenant_slug)
    THEN Deny(401, "Missing tenant information")
    ELSE context_data

\* --------------------------------------------------------------- results
\* What a service call ends with: a returned value or a raised exception.
Returned(value) == [exc |-> "none", msg |-> "", value |-> value]
Raised(exc, msg) == [exc |-> exc, msg |-> msg, value |-> NoRow]
NoPrincipal == Deny(0, "")

\* What a request carries: the bearer credentials, the X-TENANT header and the
\* fields of its body.
Request(cred, x_tenant, email, password, slug, first_name) ==
    [cred |-> cred, x_tenant |-> x_tenant, email |-> email,
     password |-> password, slug |-> slug, first_name |-> first_name,
     data |-> NoClaim]
NoRequest == Request(NoCredentials, Absent, "", "", "", NoName)

\* The endpoint that answered, status/detail of its HTTP response, the context
\* get_current_user_context resolved for it, the service the handler invoked,
\* and the tokens / row of the response body.
Response(op, status, detail, principal, service, tokens, row) ==
    [op |-> op, req |-> NoRequest, status |-> status, detail |-> detail,
     principal |-> principal, service |-> service, tokens |-> tokens, row |-> row]
\* the response paired with the request it answers
Answer(req, response) == [response EXCEPT !.req = req]

\* response schemas (from_attributes): the password hash is not a field
CoreUserResponse(user) ==
    [id |-> user.id, email |-> user.email, first_name |-> user.first_name,
     is_active |-> user.is_active]
TenantUserResponse(user) ==
    [id |-> user.id, email |-> user.email, first_name |-> user.first_name,
     is_active |-> user.is_active]
OrganizationResponse(org) ==
    [id |-> org.id, slug |-> org.slug, is_active |-> org.is_active,
     database_name |-> org.database_name]

\* --------------------------------------------------------------- services
get_tenant_session(tenant_slug) ==
    LET organization == get_organization_by_slug(tenant_slug) IN
    IF organization = NoRow THEN Raised("ValueError", "Tenant not found")
    ELSE Returned(organization)

\* mutant: no existence check, the unique index refuses the duplicate
create_core_user_without_check(email, password, first_name) ==
    IF \E u \in core_users : u.email = email
    THEN Raised("IntegrityError", "duplicate key value violates unique constraint")
    ELSE Returned([id |-> core_seq + 1, email |-> email,
                   hashed_password |-> hash_password(password),
                   first_name |-> first_name, is_active |-> TRUE])

create_core_user(email, password, first_name) ==
    IF get_core_user_by_email(email) # NoRow
    THEN Raised("ValueError", "Email already registered")
    ELSE Returned([id |-> core_seq + 1, email |-> email,
                   hashed_password |-> hash_password(password),
                   first_name |-> first_name, is_active |-> TRUE])

create_tenant_user(email, password, first_name, tenant_slug) ==
    LET session == get_tenant_session(tenant_slug) IN
    IF session.exc # "none" THEN session
    ELSE IF get_tenant_user_by_email(email) # NoRow
    THEN Raised("ValueError", "Email already registered in this tenant")
    ELSE Returned([id |-> tenant_seq + 1, email |-> email,
                   hashed_password |-> hash_password(password),
                   first_name |-> first_name, is_active |-> TRUE,
                   organization_id |-> session.value.id])

core_tokens(user) ==
    {create_access_token([NoClaim EXCEPT !.sub = str(user.id), !.context = "core",
                                         !.email = user.email]),
     create_refresh_token([NoClaim EXCEPT !.sub = str(user.id), !.context = "core"])}

\* mutant: is_active is tested before the password
authenticate_core_user_active_first(email, password) ==
    LET user == get_core_user_by_email(email) IN
    IF user = NoRow THEN Raised("ValueError", "Invalid credentials")
    ELSE IF ~user.is_active THEN Raised("ValueError", "Account is inactive")
    ELSE IF ~verify_password(password, user.hashed_password)
    THEN Raised("ValueError", "Invalid credentials")
    ELSE Returned(core_tokens(user))

authenticate_core_user(email, password) ==
    LET user == get_core_user_by_email(email) IN
    IF user = NoRow \/ ~verify_password(password, user.hashed_password)
    THEN Raised("ValueError", "Invalid credentials")
    ELSE IF ~user.is_active
    THEN Raised("ValueError", "Account is inactive")
    ELSE Returned(core_tokens(user))

tenant_tokens(user, tenant_slug, organization) ==
    {create_access_token([NoClaim EXCEPT !.sub = str(user.id), !.context = "tenant",
                                         !.tenant = tenant_slug,
                                         !.org_id = organization.id,
                                         !.email = user.email]),
     create_refresh_token([NoClaim EXCEPT !.sub = str(user.id), !.context = "tenant",
                                          !.tenant = tenant_slug,
                                          !.org_id = organization.id])}

\* mutant: is_active of the tenant user is not read
authenticate_tenant_user_ignoring_is_active(email, password, tenant_slug) ==
    LET session == get_tenant_session(tenant_slug)
        user == get_tenant_user_by_email(email)
    IN  IF session.exc # "none" THEN session
        ELSE IF user = NoRow \/ ~verify_password(password, user.hashed_password)
        THEN Raised("ValueError", "Invalid credentials")
        ELSE Returned(tenant_tokens(user, tenant_slug, session.value))

authenticate_tenant_user(email, password, tenant_slug) ==
    LET session == get_tenant_session(tenant_slug)
        user == get_tenant_user_by_email(email)
    IN  IF session.exc # "none" THEN session
        ELSE IF user = NoRow \/ ~verify_password(password, user.hashed_password)
        THEN Raised("ValueError", "Invalid credentials")
        ELSE IF ~user.is_active
        THEN Raised("ValueError", "Account is inactive")
        ELSE Returned(tenant_tokens(user, tenant_slug, session.value))

\* mutant: is_active is not read before the access token is issued
reissue_ignoring_is_active(user, token_data) ==
    IF user = NoRow
    THEN Raised("AttributeError", "'NoneType' object has no attribute 'id'")
    ELSE Returned({create_access_token(token_data)})

\* mutant: the refresh token is rotated, a new one is returned with the access
\* token
reissue_with_rotation(user, token_data) ==
    IF user = NoRow
    THEN Raised("AttributeError", "'NoneType' object has no attribute 'id'")
    ELSE IF ~user.is_active
    THEN Raised("ValueError", "User not found or inactive")
    ELSE Returned({create_access_token(token_data),
                   create_refresh_token([token_data EXCEPT !.email = ""])})

\* the tail of refresh_access_token, after user and token_data are bound
reissue(user, token_data) ==
    IF user = NoRow
    THEN Raised("AttributeError", "'NoneType' object has no attribute 'id'")
    ELSE IF ~user.is_active
    THEN Raised("ValueError", "User not found or inactive")
    ELSE Returned({create_access_token(token_data)})

refresh_core(user_id) ==
    LET user == get_core_user_by_id(user_id) IN
    reissue(user, IF user = NoRow THEN NoClaim
                  ELSE [NoClaim EXCEPT !.sub = str(user.id), !.context = "core",
                                       !.email = user.email])

refresh_tenant(user_id, payload) ==
    LET tenant_slug == payload.tenant
        org_id == payload.org_id
        session == get_tenant_session(tenant_slug)
        user == get_tenant_user_by_id(user_id)
    IN  IF ~Truthy(tenant_slug) \/ ~TruthyInt(org_id)
        THEN Raised("ValueError", "Invalid tenant token payload")
        ELSE IF session.exc # "none" THEN session
        ELSE reissue(user, IF user = NoRow THEN NoClaim
                           ELSE [NoClaim EXCEPT !.sub = str(user.id),
                                                !.context = "tenant",
                                                !.tenant = tenant_slug,
                                                !.org_id = org_id,
                                                !.email = user.email])

refresh_access_token(refresh_token_str) ==
    LET payload == refresh_token_str.claims
        user_id == payload.sub
        context == payload.context
    IN  IF decode_token(refresh_token_str).exc # "none"
        THEN Raised("ValueError", "Invalid or expired refresh token")
        ELSE IF ~Truthy(user_id) \/ ~Truthy(context)
        THEN Raised("ValueError", "Invalid token payload")
        ELSE IF context \in {"core", "tenant"} /\ ~int(user_id).ok
        THEN Raised("ValueError", "invalid literal for int() with base 10")
        ELSE IF context = "core" THEN refresh_core(int(user_id).value)
        ELSE IF context = "tenant" THEN refresh_tenant(int(user_id).value, payload)
        ELSE Raised("ValueError", "Invalid context")

create_organization(slug, owner_id) ==
    IF get_organization_by_slug(slug) # NoRow
    THEN Raised("ValueError", "Organization with this slug already exists")
    ELSE IF get_core_user_by_id(owner_id) = NoRow
    THEN Raised("ValueError", "Owner not found")
    ELSE IF \E o \in organizations : o.slug = slug
    THEN Raised("IntegrityError", "duplicate key value violates unique constraint")
    ELSE Returned([id |-> org_seq + 1, slug |-> slug, is_active |-> TRUE,
                   database_name |-> "tenant_" \o slug, owners |-> {owner_id}])

get_tenant_user_profile(user_id, tenant_slug) ==
    LET session == get_tenant_session(tenant_slug)
        user == get_tenant_user_by_id(user_id)
    IN  IF session.exc # "none" THEN session
        ELSE IF user = NoRow THEN Raised("ValueError", "User not found")
        ELSE Returned(user)

update_tenant_user_profile(user_id, first_name, tenant_slug) ==
    LET found == get_tenant_user_profile(user_id, tenant_slug) IN
    IF found.exc # "none" THEN found
    ELSE Returned([found.value EXCEPT
                     !.first_name = IF first_name = NoName THEN @ ELSE first_name])

\* ------------------------------------------------------------------ state
NoResponse == Response("", 0, "", NoPrincipal, "", {}, NoRow)
\* inflight[e]: the register calls for e suspended in create_core_user at
\* `await db_session.commit()`, the existence check behind them
NoneInFlight == [e \in RegisterEmails |-> 0]

Init ==
    /\ core_users = {}
    /\ organizations = {}
    /\ tenant_users = {}
    /\ core_seq = 0
    /\ org_seq = 0
    /\ tenant_seq = 0
    /\ held = {}
    /\ expired = FALSE
    /\ resp = NoResponse
    /\ inflight = NoneInFlight

\* ------------------------------------------------------------- endpoints
\* POST /auth/register
register_user(email, password, tenant_context) ==
    LET r == IF Truthy(tenant_context)
             THEN create_tenant_user(email, password, NoName, tenant_context)
             ELSE create_core_user(email, password, NoName)
        service == IF Truthy(tenant_context) THEN "create_tenant_user"
                   ELSE "create_core_user"
        req == Request(NoCredentials, tenant_context, email, password, "", NoName)
    IN
    /\ IF r.exc = "none"
       THEN IF Truthy(tenant_context)
            THEN /\ tenant_seq < MaxTenantUsers
                 /\ tenant_users' = tenant_users \cup {r.value}
                 /\ tenant_seq' = tenant_seq + 1
                 /\ UNCHANGED <<core_users, core_seq>>
                 /\ resp' = Answer(req, Response("register", 200, "", NoPrincipal, service, {},
                                     TenantUserResponse(r.value)))
            ELSE /\ core_seq < MaxCoreUsers
                 /\ core_users' = core_users \cup {r.value}
                 /\ core_seq' = core_seq + 1
                 /\ UNCHANGED <<tenant_users, tenant_seq>>
                 /\ resp' = Answer(req, Response("register", 200, "", NoPrincipal, service, {},
                                     CoreUserResponse(r.value)))
       ELSE /\ resp' = Answer(req, IF r.exc = "ValueError"
                       THEN Response("register", 400, r.msg, NoPrincipal, service,
                                     {}, NoRow)
                       ELSE Response("register", 500, "Registration error: " \o r.msg,
                                     NoPrincipal, service, {}, NoRow))
            /\ UNCHANGED <<core_users, core_seq, tenant_users, tenant_seq>>
    /\ UNCHANGED <<organizations, org_seq, held, expired>>

\* POST /auth/login: the status its except clause gives a ValueError message
login_status(msg) ==
    IF msg = "Invalid credentials" THEN 401
    ELSE IF msg = "Account is inactive" THEN 401
    ELSE IF msg = "Tenant not found" THEN 404
    ELSE 400

login(email, password, tenant_context) ==
    LET r == IF Truthy(tenant_context)
             THEN authenticate_tenant_user(email, password, tenant_context)
             ELSE authenticate_core_user(email, password)
        service == IF Truthy(tenant_context) THEN "authenticate_tenant_user"
                   ELSE "authenticate_core_user"
        req == Request(NoCredentials, tenant_context, email, password, "", NoName)
    IN
    /\ IF r.exc = "none"
       THEN /\ \E kept \in SUBSET r.value :
                  /\ Cardinality(held \cup kept) <= MaxTokens
                  /\ held' = held \cup kept
            /\ expired' = expired
            /\ resp' = Answer(req, Response("login", 200, "Authentication successful",
                                NoPrincipal, service, r.value, NoRow))
       ELSE /\ UNCHANGED <<held, expired>>
            /\ resp' = Answer(req, IF r.exc = "ValueError"
                       THEN Response("login", login_status(r.msg), r.msg, NoPrincipal,
                                     service, {}, NoRow)
                       ELSE Response("login", 500, "Authentication error: " \o r.msg,
                                     NoPrincipal, service, {}, NoRow))
    /\ UNCHANGED db

\* POST /auth/refresh
refresh_token(refresh_token_str) ==
    LET r == refresh_access_token(refresh_token_str)
        req == Request(refresh_token_str, Absent, "", "", "", NoName)
    IN
    /\ IF r.exc = "none"
       THEN /\ \E kept \in SUBSET r.value :
                  /\ Cardinality(held \cup kept) <= MaxTokens
                  /\ held' = held \cup kept
            /\ expired' = expired
            /\ resp' = Answer(req, Response("refresh", 200, "", NoPrincipal,
                                "refresh_access_token", r.value, NoRow))
       ELSE /\ UNCHANGED <<held, expired>>
            /\ resp' = Answer(req, IF r.exc = "ValueError"
                       THEN Response("refresh", 401, r.msg, NoPrincipal,
                                     "refresh_access_token", {}, NoRow)
                       ELSE Response("refresh", 500, "Token refresh error: " \o r.msg,
                                     NoPrincipal, "refresh_access_token", {}, NoRow))
    /\ UNCHANGED db

\* POST /organizations
create_organization_endpoint(credentials, slug) ==
    LET ctx == get_current_user_context(credentials)
        who == get_current_core_user_id(credentials)
        r == create_organization(slug, who.user_id)
        req == Request(credentials, Absent, "", "", slug, NoName)
    IN
    /\ IF ~who.ok
       THEN /\ resp' = Answer(req, Response("create_organization", who.status, who.detail, ctx,
                                "", {}, NoRow))
            /\ UNCHANGED <<organizations, org_seq>>
       ELSE IF r.exc = "none"
       THEN /\ org_seq < MaxOrgs
            /\ organizations' = organizations \cup {r.value}
            /\ org_seq' = org_seq + 1
            /\ resp' = Answer(req, Response("create_organization", 200, "", ctx,
                                "create_organization", {},
                                OrganizationResponse(r.value)))
       ELSE /\ resp' = Answer(req, IF r.exc = "ValueError"
                       THEN Response("create_organization", 400, r.msg, ctx,
                                     "create_organization", {}, NoRow)
                       ELSE Response("create_organization", 500,
                                     "Organization creation error: " \o r.msg, ctx,
                                     "create_organization", {}, NoRow))
            /\ UNCHANGED <<organizations, org_seq>>
    /\ UNCHANGED <<core_users, core_seq, tenant_users, tenant_seq, held, expired>>

\* mutant: the header is required but not compared with the token's tenant
tenant_header_check_presence_only(token_tenant, tenant_context) ==
    IF ~Truthy(tenant_context)
    THEN Raised("HTTPException", "400: X-TENANT header required")
    ELSE Returned(NoRow)

\* the X-TENANT checks at the head of both /users/me handlers: the
\* HTTPException they raise inside the handler's try block, or nothing
tenant_header_check(token_tenant, tenant_context) ==
    IF ~Truthy(tenant_context)
    THEN Raised("HTTPException", "400: X-TENANT header required")
    ELSE IF token_tenant # tenant_context
    THEN Raised("HTTPException", "403: Token tenant does not match request tenant")
    ELSE Returned(NoRow)

\* except ValueError / except Exception of both /users/me handlers
profile_error(op, r, ctx, service, prefix) ==
    IF r.exc = "ValueError"
    THEN Response(op, IF r.msg = "User not found" THEN 404 ELSE 400, r.msg, ctx,
                  service, {}, NoRow)
    ELSE Response(op, 500, prefix \o r.msg, ctx, service, {}, NoRow)

\* GET /users/me
get_user_profile(credentials, tenant_context) ==
    LET ctx == get_current_user_context(credentials)
        who == get_current_tenant_user_id(credentials)
        check == tenant_header_check(who.tenant_slug, tenant_context)
        r == get_tenant_user_profile(who.user_id, tenant_context)
        op == "get_user_profile"
        req == Request(credentials, tenant_context, "", "", "", NoName)
    IN
    /\ resp' = Answer(req, IF ~who.ok
               THEN Response(op, who.status, who.detail, ctx, "", {}, NoRow)
               ELSE IF check.exc # "none"
               THEN profile_error(op, check, ctx, "", "Profile retrieval error: ")
               ELSE IF r.exc = "none"
               THEN Response(op, 200, "", ctx, "get_tenant_user_profile", {},
                             TenantUserResponse(r.value))
               ELSE profile_error(op, r, ctx, "get_tenant_user_profile",
                                  "Profile retrieval error: "))
    /\ UNCHANGED <<db, held, expired>>

\* PUT /users/me
update_user_profile(credentials, tenant_context, first_name) ==
    LET ctx == get_current_user_context(credentials)
        who == get_current_tenant_user_id(credentials)
        check == tenant_header_check(who.tenant_slug, tenant_context)
        r == update_tenant_user_profile(who.user_id, first_name, tenant_context)
        op == "update_user_profile"
        req == Request(credentials, tenant_context, "", "", "", first_name)
    IN
    /\ IF who.ok /\ check.exc = "none" /\ r.exc = "none"
       THEN /\ tenant_users' =
                  (tenant_users \ {get_tenant_user_by_id(who.user_id)}) \cup {r.value}
            /\ resp' = Answer(req, Response(op, 200, "", ctx, "update_tenant_user_profile", {},
                                TenantUserResponse(r.value)))
       ELSE /\ tenant_users' = tenant_users
            /\ resp' = Answer(req, IF ~who.ok
                       THEN Response(op, who.status, who.detail, ctx, "", {}, NoRow)
                       ELSE IF check.exc # "none"
                       THEN profile_error(op, check, ctx, "", "Profile update error: ")
                       ELSE profile_error(op, r, ctx, "update_tenant_user_profile",
                                          "Profile update error: "))
    /\ UNCHANGED <<core_users, core_seq, organizations, org_seq, tenant_seq,
                   held, expired>>

\* ------------------------------------------------------------ environment
\* The store is changed from outside the service too: is_active flags are
\* cleared and rows are deleted by administration; ids are never reused.
\* resp describes the request handled by the step just taken, if any.
Idle == resp = NoResponse
Outside == Idle /\ resp' = NoResponse /\ UNCHANGED inflight
\* a request handled from its first line to its response with no other
\* request in between
Whole == Idle /\ UNCHANGED inflight

\* the response goes back to the client; the next request is taken after it
deliver ==
    /\ ~Idle
    /\ resp' = NoResponse
    /\ UNCHANGED <<db, held, expired, inflight>>

deactivate_core_user(id) ==
    /\ \E u \in core_users : u.id = id /\ u.is_active
    /\ core_users' = {IF u.id = id THEN [u EXCEPT !.is_active = FALSE] ELSE u
                      : u \in core_users}
    /\ Outside
    /\ UNCHANGED <<core_seq, organizations, org_seq, tenant_users, tenant_seq,
                   held, expired>>

\* organization_owners.user_id references core_users.id: the user's rows of
\* organization_owners go with the user
delete_core_user(id) ==
    /\ \E u \in core_users : u.id = id
    /\ core_users' = {u \in core_users : u.id # id}
    /\ organizations' = {[o EXCEPT !.owners = @ \ {id}] : o \in organizations}
    /\ Outside
    /\ UNCHANGED <<core_seq, org_seq, tenant_users, tenant_seq, held, expired>>

deactivate_organization(id) ==
    /\ \E o \in organizations : o.id = id /\ o.is_active
    /\ organizations' = {IF o.id = id THEN [o EXCEPT !.is_active = FALSE] ELSE o
                         : o \in organizations}
    /\ Outside
    /\ UNCHANGED <<core_users, core_seq, org_seq, tenant_users, tenant_seq,
                   held, expired>>

\* tenant_users.organization_id is a plain column, not a foreign key
delete_organization(id) ==
    /\ \E o \in organizations : o.id = id
    /\ organizations' = {o \in organizations : o.id # id}
    /\ Outside
    /\ UNCHANGED <<core_users, core_seq, org_seq, tenant_users, tenant_seq,
                   held, expired>>

deactivate_tenant_user(id) ==
    /\ \E u \in tenant_users : u.id = id /\ u.is_active
    /\ tenant_users' = {IF u.id = id THEN [u EXCEPT !.is_active = FALSE] ELSE u
                        : u \in tenant_users}
    /\ Outside
    /\ UNCHANGED <<core_users, core_seq, organizations, org_seq, tenant_seq,
                   held, expired>>

delete_tenant_user(id) ==
    /\ \E u \in tenant_users : u.id = id
    /\ tenant_users' = {u \in tenant_users : u.id # id}
    /\ Outside
    /\ UNCHANGED <<core_users, core_seq, organizations, org_seq, tenant_seq,
                   held, expired>>

\* the clock advances by one tick
aged(token) == [token EXCEPT !.exp_in = @ - 1]
tick ==
    /\ held' = {aged(t) : t \in {h \in held : h.exp_in > 1}}
    /\ expired' = (expired \/ \E t \in held : t.exp_in = 1)
    /\ Outside
    /\ UNCHANGED db

\* ---------------------------------------------------------- specification
CoreHeaders == {Absent, ""}
RegisterCore ==
    Whole /\ \E e \in RegisterEmails, h \in CoreHeaders : register_user(e, GoodPassword, h)
RegisterTenant ==
    Whole /\ \E e \in RegisterEmails, h \in Slugs : register_user(e, GoodPassword, h)
LoginCore ==
    Whole /\ \E e \in Emails, p \in LoginPasswords, h \in CoreHeaders : login(e, p, h)
LoginTenant ==
    Whole /\ \E e \in Emails, p \in LoginPasswords, h \in Slugs : login(e, p, h)
Refresh == Whole /\ \E t \in Presentable : refresh_token(t)
CreateOrganization ==
    Whole /\ \E c \in Credentials, s \in Slugs : create_organization_endpoint(c, s)
GetUserProfile == Whole /\ \E c \in Credentials, h \in Headers : get_user_profile(c, h)
UpdateUserProfile ==
    Whole /\ \E c \in Credentials, h \in Headers, n \in UpdateNames \cup {NoName} :
        update_user_profile(c, h, n)
DeactivateCoreUser == \E id \in 1..core_seq : deactivate_core_user(id)
DeleteCoreUser == \E id \in 1..core_seq : delete_core_user(id)
DeactivateOrganization == \E id \in 1..org_seq : deactivate_organization(id)
DeleteOrganization == \E id \in 1..org_seq : delete_organization(id)
DeactivateTenantUser == \E id \in 1..tenant_seq : deactivate_tenant_user(id)
DeleteTenantUser == \E id \in 1..tenant_seq : delete_tenant_user(id)
Tick == tick
Deliver == deliver

\* ------------------------------------------------------ interleaved calls
\* create_core_user yields at each await: another request may run between its
\* existence check and its commit. A call that found no user of the email is
\* suspended before the commit.
create_core_user_check(email) ==
    /\ Idle
    /\ get_core_user_by_email(email) = NoRow
    /\ inflight[email] < MaxInFlight
    /\ inflight' = [inflight EXCEPT ![email] = @ + 1]
    /\ UNCHANGED <<db, held, expired, resp>>

\* db_session.add(db_user); await db_session.commit(): the INSERT runs against
\* the unique index of core_users.email
create_core_user_commit(email, password, first_name) ==
    IF \E u \in core_users : u.email = email
    THEN Raised("IntegrityError", "duplicate key value violates unique constraint")
    ELSE Returned([id |-> core_seq + 1, email |-> email,
                   hashed_password |-> hash_password(password),
                   first_name |-> first_name, is_active |-> TRUE])

\* a suspended call resumes: the commit, then register_user's return or its
\* except clauses
register_user_resume(email, password) ==
    LET r == create_core_user_commit(email, password, NoName)
        req == Request(NoCredentials, Absent, email, password, "", NoName)
    IN
    /\ Idle
    /\ inflight[email] > 0
    /\ inflight' = [inflight EXCEPT ![email] = @ - 1]
    /\ IF r.exc = "none"
       THEN /\ core_seq < MaxCoreUsers
            /\ core_users' = core_users \cup {r.value}
            /\ core_seq' = core_seq + 1
            /\ resp' = Answer(req, Response("register", 200, "", NoPrincipal,
                                "create_core_user", {}, CoreUserResponse(r.value)))
       ELSE /\ resp' = Answer(req, IF r.exc = "ValueError"
                       THEN Response("register", 400, r.msg, NoPrincipal,
                                     "create_core_user", {}, NoRow)
                       ELSE Response("register", 500, "Registration error: " \o r.msg,
                                     NoPrincipal, "create_core_user", {}, NoRow))
            /\ UNCHANGED <<core_users, core_seq>>
    /\ UNCHANGED <<organizations, tenant_users, org_seq, tenant_seq, held, expired>>

RegisterCheck == \E e \in RegisterEmails : create_core_user_check(e)
RegisterCommit == \E e \in RegisterEmails : register_user_resume(e, GoodPassword)

\* The platform scope: core accounts, their tokens, and the two gates.
NextCore ==
    \/ RegisterCore
    \/ LoginCore
    \/ Refresh
    \/ CreateOrganization
    \/ GetUserProfile
    \/ DeactivateCoreUser
    \/ DeleteCoreUser
    \/ Tick
    \/ Deliver

SpecCore == Init /\ [][NextCore]_vars

\* Organizations come and go under the tenant tokens issued for them.
NextOrgs ==
    \/ RegisterCore
    \/ LoginCore
    \/ CreateOrganization
    \/ RegisterTenant
    \/ LoginTenant
    \/ Refresh
    \/ GetUserProfile
    \/ DeactivateOrganization
    \/ DeleteOrganization
    \/ Deliver

SpecOrgs == Init /\ [][NextOrgs]_vars

\* A platform with an owner and the organizations acme and other, the tokens
\* of the owner's login expired since.
Bootstrapped ==
    /\ core_users = {[id |-> 1, email |-> "a@x.io",
                      hashed_password |-> hash_password(GoodPassword),
                      first_name |-> NoName, is_active |-> TRUE]}
    /\ organizations = {[id |-> 1, slug |-> "acme", is_active |-> TRUE,
                         database_name |-> "tenant_acme", owners |-> {1}],
                        [id |-> 2, slug |-> "other", is_active |-> TRUE,
                         database_name |-> "tenant_other", owners |-> {1}]}
    /\ tenant_users = {}
    /\ core_seq = 1
    /\ org_seq = 2
    /\ tenant_seq = 0
    /\ held = {}
    /\ expired = TRUE
    /\ resp = NoResponse
    /\ inflight = NoneInFlight

\* The tenant scope on a bootstrapped platform.
NextTenant ==
    \/ RegisterTenant
    \/ LoginTenant
    \/ Refresh
    \/ GetUserProfile
    \/ UpdateUserProfile
    \/ DeactivateTenantUser
    \/ DeleteTenantUser
    \/ DeactivateOrganization
    \/ Tick
    \/ Deliver

SpecTenant == Bootstrapped /\ [][NextTenant]_vars

\* Both scopes side by side: accounts are disabled and removed under their
\* tokens.
NextAccounts ==
    \/ LoginCore
    \/ RegisterTenant
    \/ LoginTenant
    \/ Refresh
    \/ CreateOrganization
    \/ GetUserProfile
    \/ DeactivateCoreUser
    \/ DeleteCoreUser
    \/ DeactivateTenantUser
    \/ DeleteTenantUser
    \/ Deliver

SpecAccounts == Bootstrapped /\ [][NextAccounts]_vars

\* ------------------------------------------------------------ codec alone
\* the data dicts the services sign: of an access and of a refresh token, in
\* core and in tenant context
ClaimSets ==
    LET subs == {str(n) : n \in 1..(MaxCoreUsers + MaxTenantUsers)}
        mails == RegisterEmails \cup {""}
    IN  {[NoClaim EXCEPT !.sub = s, !.context = "core", !.email = e] :
            s \in subs, e \in mails}
        \cup {[sub |-> s, context |-> "tenant", tenant |-> t, org_id |-> o, email |-> e] :
                 s \in subs, t \in Slugs, o \in 1..MaxOrgs, e \in mails}
\* expires_delta, in ticks; the tests issue with a negative one
Lifetimes == (0 - 1)..REFRESH_TOKEN_EXPIRE
\* the key a presented token was signed with
Keys == {SECRET_KEY, "forged"}

\* decode_token(create_access_token(data, expires_delta)), the token presented
\* age ticks after it was issued
decode_issued(data, ttl, age, key) ==
    LET token == [Token(data, ttl) EXCEPT !.exp_in = ttl - age, !.sig = key]
        r == decode_token(token)
        req == [Request(token, Absent, "", "", "", NoName) EXCEPT !.data = data]
    IN
    /\ resp' = Answer(req, Response("decode_token", 0, r.msg, NoPrincipal,
                        "decode_token", {},
                        IF r.exc = "none" THEN r.value ELSE NoRow))
    /\ UNCHANGED <<db, held, expired>>

DecodeIssued ==
    Whole /\ \E c \in ClaimSets, ttl \in Lifetimes, age \in 0..MaxAge, k \in Keys :
        decode_issued(c, ttl, age, k)

NextCodec ==
    \/ DecodeIssued
    \/ Deliver

SpecCodec == Init /\ [][NextCodec]_vars

\* Register calls for one email overlap.
NextRace ==
    \/ RegisterCore
    \/ RegisterCheck
    \/ RegisterCommit
    \/ LoginCore
    \/ DeleteCoreUser
    \/ Deliver

SpecRace == Init /\ [][NextRace]_vars

Next ==
    \/ NextCodec
    \/ NextRace
    \/ NextCore
    \/ NextOrgs
    \/ NextTenant
    \/ NextAccounts

Spec == Init /\ [][Next]_vars

\* ------------------------------------------------------------- properties
\* validly signed and not expired
Valid(token) == token.sig = SECRET_KEY /\ token.exp_in > 0
ProfileOps == {"get_user_profile", "update_user_profile"}
\* the endpoints in front of which get_current_user_context runs
Resolving == ProfileOps \cup {"create_organization"}
\* a request that reached context resolution with a valid token of a context
ResolvedFor(context) ==
    /\ resp.op \in Resolving
    /\ Valid(resp.req.cred)
    /\ resp.req.cred.claims.context = context
\* the active organization that holds the token's slug with the token's org_id
LiveOrganization(token) ==
    \E o \in organizations :
        o.is_active /\ o.slug = token.claims.tenant /\ o.id = token.claims.org_id

\* C1: a tenant principal comes out of a valid tenant token only while an
\* active organization holds the token's slug with the token's org_id; with the
\* organization absent, inactive or recreated under another id the request
\* ends 401.
C1_TenantBindingRechecked ==
    ResolvedFor("tenant") =>
        /\ resp.principal.ok => LiveOrganization(resp.req.cred)
        /\ ~LiveOrganization(resp.req.cred) =>
               ~resp.principal.ok /\ resp.status = 401

\* C1 witness: the slug of a valid tenant token is held by an active
\* organization of another id, and the request was refused.
C1_RecreatedSlugRefused ==
    /\ ResolvedFor("tenant")
    /\ \E o \in organizations :
          /\ o.is_active
          /\ o.slug = resp.req.cred.claims.tenant
          /\ o.id # resp.req.cred.claims.org_id
    /\ resp.status = 401
    /\ resp.detail = "Invalid tenant in token"

\* accounts of other organizations than the active one the header names
OfAnotherTenant(email, slug) ==
    \E o \in organizations, u \in tenant_users :
        /\ o.is_active /\ o.slug = slug
        /\ u.email = email /\ u.organization_id # o.id

\* C2: login with X-TENANT acme and the email of a user of another
\* organization never succeeds: it ends 401 Invalid credentials without tokens.
C2_TenantLoginScoped ==
    (resp.op = "login" /\ OfAnotherTenant(resp.req.email, resp.req.x_tenant)) =>
        /\ resp.status = 401
        /\ resp.detail = "Invalid credentials"
        /\ resp.tokens = {}

\* the tenant user a token's subject names
TenantSubject(token) == {u \in tenant_users : str(u.id) = token.claims.sub}
CoreSubject(token) == {u \in core_users : str(u.id) = token.claims.sub}

\* C3: a valid tenant token whose subject is absent or inactive is refused
\* with 401 and no tenant principal is emitted.
C3_TenantUserRechecked ==
    (ResolvedFor("tenant") /\ \A u \in TenantSubject(resp.req.cred) : ~u.is_active) =>
        ~resp.principal.ok /\ resp.status = 401

\* C4: a valid core token resolves to a core principal iff its subject exists
\* and is active; otherwise the request ends 401.
C4_CoreUserRechecked ==
    ResolvedFor("core") =>
        /\ resp.principal.ok <=> \E u \in CoreSubject(resp.req.cred) : u.is_active
        /\ ~resp.principal.ok => resp.status = 401

\* C4 witness: a valid core token of a deactivated user was refused.
C4_DeactivatedCoreUserRefused ==
    /\ ResolvedFor("core")
    /\ \E u \in CoreSubject(resp.req.cred) : ~u.is_active
    /\ resp.status = 401
    /\ resp.detail = "User not found or inactive"

\* the X-TENANT header is present and names the tenant of the resolved token
HeaderMatches(r) ==
    /\ r.principal.ok
    /\ r.principal.context = "tenant"
    /\ Truthy(r.req.x_tenant)
    /\ r.req.x_tenant = r.principal.tenant_slug

\* C5: a /users/me request whose X-TENANT header is absent, empty or different
\* from the token's tenant invokes no profile service, returns no user and
\* changes none.
C5_ProfileNeedsMatchingHeader ==
    [][(resp'.op \in ProfileOps /\ ~HeaderMatches(resp')) =>
          /\ resp'.service = ""
          /\ resp'.row = NoRow
          /\ tenant_users' = tenant_users]_vars

\* C5 witness: PUT /users/me with a valid tenant token and the header of
\* another tenant ended without the service being invoked.
C5_OtherHeaderStopped ==
    /\ resp.op = "update_user_profile"
    /\ resp.principal.ok
    /\ resp.principal.context = "tenant"
    /\ resp.req.first_name \in UpdateNames
    /\ Truthy(resp.req.x_tenant)
    /\ resp.req.x_tenant # resp.principal.tenant_slug
    /\ resp.service = ""

\* C6: with a valid tenant token, /users/me without the header ends 400 and
\* with a header other than the token's tenant ends 403.
C6_HeaderFailureKinds ==
    (resp.op \in ProfileOps /\ resp.principal.ok /\ resp.principal.context = "tenant") =>
        /\ ~Truthy(resp.req.x_tenant) => resp.status = 400
        /\ (Truthy(resp.req.x_tenant)
              /\ resp.req.x_tenant # resp.principal.tenant_slug) => resp.status = 403

\* C7: the core gate lets exactly the core context through and the tenant gate
\* exactly the tenant context; the other context ends 403 and no service runs.
C7_ContextGates ==
    (resp.op \in Resolving /\ resp.principal.ok) =>
        LET required == IF resp.op = "create_organization" THEN "core" ELSE "tenant"
            refused == resp.status = 403 /\ resp.service = "" /\ resp.row = NoRow
        IN  /\ resp.principal.context # required => refused
            /\ resp.principal.context = required =>
                  /\ resp.detail \notin {"Access denied. Core user required",
                                         "Access denied. Tenant user required"}
                  /\ resp.op = "create_organization" =>
                         resp.service = "create_organization"

\* C7 witness: a valid tenant token was refused at POST /organizations.
C7_TenantTokenAtCoreGate ==
    /\ resp.op = "create_organization"
    /\ resp.principal.ok
    /\ resp.principal.context = "tenant"
    /\ resp.status = 403
    /\ resp.service = ""

\* the accounts a login looks in, and whether its tenant resolves
LoginScope(r) == IF Truthy(r.req.x_tenant) THEN tenant_users ELSE core_users
ScopeResolves(r) ==
    Truthy(r.req.x_tenant) =>
        \E o \in organizations : o.is_active /\ o.slug = r.req.x_tenant
\* the account of the login's email, if any
LoginAccount(r) == {u \in LoginScope(r) : u.email = r.req.email}

\* C8: login with an unregistered email and login with a registered email and
\* a wrong password end alike, 401 Invalid credentials and no tokens, whether
\* the account is active or not.
C8_NoExistenceLeak ==
    (/\ resp.op = "login"
     /\ ScopeResolves(resp)
     /\ \A u \in LoginAccount(resp) :
            ~verify_password(resp.req.password, u.hashed_password)) =>
        /\ resp.status = 401
        /\ resp.detail = "Invalid credentials"
        /\ resp.tokens = {}

\* C8 witness: the wrong password of an inactive account ended as an unknown
\* email does.
C8_WrongPasswordOfInactive ==
    /\ resp.op = "login"
    /\ \E u \in LoginAccount(resp) :
          ~u.is_active /\ ~verify_password(resp.req.password, u.hashed_password)
    /\ resp.status = 401
    /\ resp.detail = "Invalid credentials"

\* C9: login with the right password of a disabled account ends with Account
\* is inactive and carries no token.
C9_InactiveGetsNoTokens ==
    (/\ resp.op = "login"
     /\ ScopeResolves(resp)
     /\ \E u \in LoginAccount(resp) :
            ~u.is_active /\ verify_password(resp.req.password, u.hashed_password)) =>
        /\ resp.detail = "Account is inactive"
        /\ resp.status # 200
        /\ resp.tokens = {}

\* C9 witness: a disabled tenant user logged in with the right password.
C9_InactiveTenantLogin ==
    /\ resp.op = "login"
    /\ Truthy(resp.req.x_tenant)
    /\ \E u \in LoginAccount(resp) :
          ~u.is_active /\ verify_password(resp.req.password, u.hashed_password)
    /\ resp.detail = "Account is inactive"

\* the user a token's subject names, in the table of the token's context
Subject(token) ==
    IF token.claims.context = "core" THEN CoreSubject(token)
    ELSE IF token.claims.context = "tenant" THEN TenantSubject(token)
    ELSE {}

\* C10: refresh returns no access token when the user the token names is
\* absent or inactive.
C10_RefreshRechecksUser ==
    (resp.op = "refresh" /\ \A u \in Subject(resp.req.cred) : ~u.is_active) =>
        resp.tokens = {} /\ resp.status # 200

\* C10 witness: a valid token of a removed user was presented to refresh.
C10_RefreshOfRemovedUser ==
    /\ resp.op = "refresh"
    /\ Valid(resp.req.cred)
    /\ resp.req.cred.claims.context \in {"core", "tenant"}
    /\ Subject(resp.req.cred) = {}
    /\ resp.tokens = {}

\* the refresh reached the re-fetch of the user its token names
Refetched(r) ==
    /\ r.op = "refresh"
    /\ Valid(r.req.cred)
    /\ r.req.cred.claims.context \in {"core", "tenant"}
    /\ r.req.cred.claims.context = "tenant" =>
          get_tenant_session(r.req.cred.claims.tenant).exc = "none"

\* C11: a refresh whose re-fetch finds the user absent or inactive, in core
\* and in tenant context, ends 401 with User not found or inactive.
C11_RefreshIneligibleKind ==
    (Refetched(resp) /\ \A u \in Subject(resp.req.cred) : ~u.is_active) =>
        resp.status = 401 /\ resp.detail = "User not found or inactive"

\* the users of the tenant a slug names that have the email
InTenant(email, slug) ==
    {u \in tenant_users :
        /\ u.email = email
        /\ u.organization_id = get_tenant_session(slug).value.id}

\* C12: registration under a tenant is refused as already registered iff that
\* tenant has a user of the email: the users of other tenants do not count.
C12_UniquePerTenant ==
    [][(/\ resp'.op = "register"
        /\ Truthy(resp'.req.x_tenant)
        /\ get_tenant_session(resp'.req.x_tenant).exc = "none") =>
          (resp'.detail = "Email already registered in this tenant"
             <=> InTenant(resp'.req.email, resp'.req.x_tenant) # {})]_vars

\* C13: of the register calls for one email that all passed the existence
\* check, the one that commits first stores the user and succeeds; each later
\* one stores nothing and ends 400 Email already registered, as a sequential
\* duplicate does; no email is stored twice.
C13_RaceLoserGetsValidation ==
    [][\A e \in RegisterEmails :
          inflight'[e] < inflight[e] =>
              /\ IF \E u \in core_users : u.email = e
                 THEN /\ resp'.status = 400
                      /\ resp'.detail = "Email already registered"
                      /\ core_users' = core_users
                 ELSE /\ resp'.status = 200
                      /\ Cardinality(core_users') = Cardinality(core_users) + 1
              /\ \A u, v \in core_users' : u.email = v.email => u = v]_vars

\* C14: a core registration handled as a whole with the email of a stored core
\* user ends 400 Email already registered and leaves the store as it was; with
\* an email no core user has it stores exactly one new user, of that email.
C14_CoreDuplicateRefused ==
    [][(/\ resp'.op = "register"
        /\ ~Truthy(resp'.req.x_tenant)
        /\ inflight' = inflight) =>
          IF \E u \in core_users : u.email = resp'.req.email
          THEN /\ resp'.status = 400
               /\ resp'.detail = "Email already registered"
               /\ db' = db
          ELSE /\ resp'.status = 200
               /\ \E u \in core_users' \ core_users :
                     /\ u.email = resp'.req.email
                     /\ core_users' = core_users \cup {u}
               /\ core_users \subseteq core_users']_vars

\* C14 witness: a second registration of a stored email was refused.
C14_DuplicateRefused ==
    /\ resp.op = "register"
    /\ ~Truthy(resp.req.x_tenant)
    /\ \E u \in core_users : u.email = resp.req.email /\ u.id # 0
    /\ resp.status = 400
    /\ resp.detail = "Email already registered"
    /\ resp.row = NoRow

\* a token login issued as refresh_token: signed by the service, its claims
\* without the email the access token carries
IsRefreshToken(token) ==
    /\ token.sig = SECRET_KEY
    /\ token.claims.sub # ""
    /\ token.claims.email = ""

\* C15: a refresh token presented as the Bearer token of a protected
\* operation is refused and no principal comes out of it.
C15_RefreshTokenNotBearer ==
    (resp.op \in Resolving /\ IsRefreshToken(resp.req.cred)) =>
        ~resp.principal.ok /\ resp.status = 401

\* the tokens a step hands to a client: held after it, and neither held
\* before it nor an older token grown one tick older
Issued == held' \ (held \cup {aged(t) : t \in held})

\* C16: a successful refresh returns one access token and no refresh token;
\* a refresh token comes into a client's hands through login only.
C16_NoRotation ==
    [][/\ (resp'.op = "refresh" /\ resp'.status = 200) =>
             /\ Cardinality(resp'.tokens) = 1
             /\ \A t \in resp'.tokens :
                   ~IsRefreshToken(t) /\ t.exp_in = ACCESS_TOKEN_EXPIRE
       /\ (\E t \in Issued : IsRefreshToken(t)) =>
             resp'.op = "login" /\ resp'.status = 200]_vars

\* C16 witness: a refresh token kept from login was refreshed a second time,
\* the access token of the first refresh still held.
C16_RefreshedAgain ==
    /\ resp.op = "refresh"
    /\ resp.status = 200
    /\ IsRefreshToken(resp.req.cred)
    /\ resp.req.cred \in held
    /\ \E t \in held : ~IsRefreshToken(t) /\ t.claims.sub = resp.req.cred.claims.sub
    /\ Cardinality({t \in held : IsRefreshToken(t)}) = 1

\* a validly signed token went through decode_token
Decoded == resp.op = "decode_token" /\ resp.req.cred.sig = SECRET_KEY

C18_SlugCollisionRefused ==
    [][/\ (/\ resp'.op = "create_organization"
           /\ resp'.service = "create_organization"
           /\ \E o \in organizations : o.slug = resp'.req.slug) =>
              /\ resp'.status = 400
              /\ resp'.detail = "Organization with this slug already exists"
              /\ organizations' = organizations
       /\ \A o, q \in organizations' : o.slug = q.slug => o = q]_vars

\* C19: the access token a tenant refresh returns names the live active
\* organization of its slug by its current id, so it passes context resolution
\* as long as nothing changes.
C19_RefreshedClaimsFresh ==
    (/\ resp.op = "refresh"
     /\ resp.status = 200
     /\ resp.req.cred.claims.context = "tenant") =>
        \A t \in resp.tokens :
            /\ LiveOrganization(t)
            /\ get_current_user_context(t).ok

\* C20: refresh answers an expired refresh token and a wrongly signed one
\* differently, the first as expired and the second as invalid.
C20_RefreshFailureKinds ==
    resp.op = "refresh" =>
        /\ jwt_decode(resp.req.cred) = "ExpiredSignatureError" =>
              /\ resp.detail # refresh_access_token(ForgedToken).msg
              /\ resp.detail = "Token has expired"
        /\ jwt_decode(resp.req.cred) = "InvalidTokenError" =>
              /\ resp.detail # refresh_access_token(ExpiredToken).msg
              /\ resp.detail = "Invalid token"

\* C21: registration under a slug that resolves to no active organization
\* ends 404, as login under that slug does, and stores no user.
C21_UnknownTenantNotFound ==
    (/\ resp.op \in {"register", "login"}
     /\ Truthy(resp.req.x_tenant)
     /\ get_tenant_session(resp.req.x_tenant).exc # "none") =>
        /\ resp.status = 404
        /\ resp.detail = "Tenant not found"
        /\ resp.row = NoRow
        /\ resp.tokens = {}

\* the slug a tenant flow resolves: the header of register and login, the
\* tenant claim of a refresh that gets as far as get_tenant_session
ResolvedSlug(r) ==
    IF r.op \in {"register", "login"} /\ Truthy(r.req.x_tenant)
    THEN {r.req.x_tenant}
    ELSE IF /\ r.op = "refresh"
            /\ Valid(r.req.cred)
            /\ r.req.cred.claims.context = "tenant"
            /\ int(r.req.cred.claims.sub).ok
            /\ Truthy(r.req.cred.claims.tenant)
            /\ TruthyInt(r.req.cred.claims.org_id)
    THEN {r.req.cred.claims.tenant}
    ELSE {}
\* what each flow answers when the tenant is not found
TenantNotFoundStatus(op) ==
    IF op = "login" THEN 404 ELSE IF op = "refresh" THEN 401 ELSE 400

\* C22: register, login and refresh answer a slug whose organization is
\* inactive exactly as they answer a slug no organization has: Tenant not
\* found, with the status of the flow, no tokens and no user; so while an
\* organization stays deactivated every tenant login and refresh for its slug
\* fails.
C22_InactiveTenantAsAbsent ==
    \A slug \in ResolvedSlug(resp) :
        (~\E o \in organizations : o.slug = slug /\ o.is_active) =>
            /\ resp.detail = "Tenant not found"
            /\ resp.status = TenantNotFoundStatus(resp.op)
            /\ resp.tokens = {}
            /\ resp.row = NoRow

\* C22 witness: the refresh of a valid tenant token issued before its
\* organization was deactivated.
C22_RefreshAfterDeactivation ==
    /\ resp.op = "refresh"
    /\ \A slug \in ResolvedSlug(resp) :
          \E o \in organizations :
              /\ o.slug = slug
              /\ o.id = resp.req.cred.claims.org_id
              /\ ~o.is_active
    /\ ResolvedSlug(resp) # {}
    /\ resp.detail = "Tenant not found"

====
